---- MODULE Spec2Model ----
(***************************************************************************)
(* Model of the bitunix-lookup-relay HTTP servers (src/server.js and       *)
(* src/unnamed/part_000).                                                  *)
(*                                                                         *)
(* The relay endpoint POST /upload is an async handler; every action below *)
(* is the code that runs between two awaits of one request (the handler    *)
(* yields only at `await fetch`, `await r.text()` and the 500 ms timer).   *)
(* The symbol cache endpoints POST /update-symbols and                     *)
(* GET /symbols/tradingview are synchronous: one action per request.       *)
(*                                                                         *)
(* JavaScript values are tagged records [t, v]; strings are sequences of   *)
(* one-character strings so that trim() is computed, not assumed.          *)
(***************************************************************************)
EXTENDS Integers, Sequences, FiniteSets, TLC

\* ------------------------------------------------------------------------
\* Bounds of the model
\* ------------------------------------------------------------------------

\* number of concurrently handled POST /upload requests
NumUploads == 2

\* largest value of the wall clock read by new Date() in the symbol cache
MaxClock == 2

\* number of symbol-cache requests the history remembers
TrailLen == 3

\* ------------------------------------------------------------------------
\* Program constants
\* ------------------------------------------------------------------------

\* while (tryCount < 2)
MaxTries == 2

\* setTimeout(r, 500)
BackoffMs == 500

\* fetch(..., { timeout: 15000 })
FetchTimeoutMs == 15000

\* r.status >= 500
ServerErrorFloor == 500

\* r.status === 302
RedirectStatus == 302

\* ------------------------------------------------------------------------
\* JavaScript values
\* ------------------------------------------------------------------------

Undefined == [t |-> "undefined", v |-> <<>>]

Null == [t |-> "null", v |-> <<>>]

Str(s) == [t |-> "string", v |-> s]

Arr(a) == [t |-> "array", v |-> a]

Bool(b) == [t |-> "boolean", v |-> b]

\* an object parsed from JSON; v names its own properties
Obj(props) == [t |-> "object", v |-> props]

\* ToBoolean
Truthy(x) ==
    CASE x.t = "undefined" -> FALSE
      [] x.t = "null" -> FALSE
      [] x.t = "string" -> x.v # <<>>
      [] x.t = "boolean" -> x.v
      [] OTHER -> TRUE

\* Array.isArray
IsArray(x) == x.t = "array"

\* x || d
OrElse(x, d) == IF Truthy(x) THEN x ELSE d

\* String(x) throws a TypeError when x is an object whose own property
\* toString is not callable: {"toString": null}
StringThrows(x) == x.t = "object" /\ x.v = <<"toString">>

\* String(x) for the values that do not throw
ToStr(x) ==
    CASE x.t = "string" -> x.v
      [] x.t = "object" -> <<"[", "o", "]">>
      [] x.t = "array" -> <<>>
      [] OTHER -> <<"u">>

WhiteSpace == {" ", "\t", "\n"}

RECURSIVE TrimStart(_)
TrimStart(s) ==
    IF s # <<>> /\ Head(s) \in WhiteSpace THEN TrimStart(Tail(s)) ELSE s

RECURSIVE TrimEnd(_)
TrimEnd(s) ==
    IF s # <<>> /\ s[Len(s)] \in WhiteSpace
    THEN TrimEnd(SubSeq(s, 1, Len(s) - 1))
    ELSE s

\* String.prototype.trim
Trim(s) == TrimEnd(TrimStart(s))

\* ------------------------------------------------------------------------
\* Relay endpoint POST /upload: configuration and inputs
\* ------------------------------------------------------------------------

\* process.env.GOOGLE_SCRIPT_URL || "https://script.google.com/.../exec"
DEFAULT_GOOGLE_SCRIPT == <<"G">>

UploadIds == 1 .. NumUploads

Row == <<"BTCUSD", "1">>

\* req.body of the requests the model sends to POST /upload
UploadBodies ==
    { [sheetName |-> Undefined, values |-> Arr(<<Row>>),
       googleScriptUrl |-> Undefined],
      [sheetName |-> Str(<<"D">>), values |-> Arr(<<Row, Row>>),
       googleScriptUrl |-> Str(<<" ", "U", " ">>)],
      [sheetName |-> Str(<<>>), values |-> Arr(<<>>),
       googleScriptUrl |-> Str(<<" ", "\t">>)],
      [sheetName |-> Str(<<"D">>), values |-> Undefined,
       googleScriptUrl |-> Undefined],
      [sheetName |-> Undefined, values |-> Str(<<"r">>),
       googleScriptUrl |-> Str(<<"U">>)],
      [sheetName |-> Undefined, values |-> Null,
       googleScriptUrl |-> Undefined],
      [sheetName |-> Undefined, values |-> Arr(<<Row>>),
       googleScriptUrl |-> Obj(<<"toString">>)],
      [sheetName |-> Undefined, values |-> Undefined,
       googleScriptUrl |-> Obj(<<"toString">>)] }

NoBody == [sheetName |-> Undefined, values |-> Undefined,
           googleScriptUrl |-> Undefined]

\* HTTP statuses the destination answers with
Statuses == {200, 299, 302, 403, 499, 500, 503}

\* fetchErr.message of a rejected fetch (timeout, connection failure)
NetErrors == {<<"network timeout">>, <<"ECONNRESET">>}

\* body texts of the destination
Bodies == {"OK", "Denied"}

\* what awaiting r.text() meets: the body the destination sent arrives, or
\* reading it fails part-way
TextOutcomes ==
    [body : Bodies, readable : {TRUE}] \cup [body : {"OK"}, readable : {FALSE}]

\* ------------------------------------------------------------------------
\* Relay endpoint: pure parts of the handler
\* ------------------------------------------------------------------------

\* mutant: the override is not trimmed before it is tested and used
ScriptUrlOfUntrimmed(body) ==
    LET u == body.googleScriptUrl
    IN  IF Truthy(u) THEN ToStr(u) ELSE DEFAULT_GOOGLE_SCRIPT

\* (body.googleScriptUrl && String(body.googleScriptUrl).trim()) || DEFAULT
ScriptUrlOf(body) ==
    LET u == body.googleScriptUrl
    IN  IF Truthy(u) /\ Trim(ToStr(u)) # <<>>
        THEN Trim(ToStr(u))
        ELSE DEFAULT_GOOGLE_SCRIPT

\* !body.values || !Array.isArray(body.values)
ValuesInvalid(body) == ~Truthy(body.values) \/ ~IsArray(body.values)

\* const forward = { sheetName: body.sheetName || "Sheet1", values }
ForwardOf(body) ==
    [sheetName |-> OrElse(body.sheetName, Str(<<"Sheet1">>)),
     values |-> body.values]

\* JSON.stringify(forward): the own properties, in insertion order
Stringify(forward) ==
    << <<"sheetName", forward.sheetName>>, <<"values", forward.values>> >>

\* mutant: the destination override travels in the forwarded body
FetchCallLeaksUrl(url, forward) ==
    [url |-> url, method |-> "POST",
     body |-> Stringify(forward) \o << <<"googleScriptUrl", Str(url)>> >>,
     timeout |-> FetchTimeoutMs]

\* the arguments of fetch(scriptUrl, {method, headers, body, timeout})
FetchCall(url, forward) ==
    [url |-> url, method |-> "POST", body |-> Stringify(forward),
     timeout |-> FetchTimeoutMs]

\* mutant: 299 is not counted as ok
IsOkBelow299(status) == status >= 200 /\ status < 299

\* r.ok
IsOk(status) == status >= 200 /\ status <= 299

\* mutant: 302 is not accepted
IsSuccessOkOnly(status) == IsOk(status)

\* r.ok || r.status === 302
IsSuccess(status) == IsOk(status) \/ status = RedirectStatus

\* mutant: a 5xx is retried whatever the attempt number
RetryStatusNoLimit(status, tries) == status >= ServerErrorFloor

\* mutant: every non-OK status is retried
RetryStatusAnyFailure(status, tries) == tries < MaxTries

\* r.status >= 500 && tryCount < 2
RetryStatus(status, tries) == status >= ServerErrorFloor /\ tries < MaxTries

\* mutant: a rejected fetch is never retried
RetryErrorNever(tries) == FALSE

\* catch (fetchErr): if (tryCount < 2)
RetryError(tries) == tries < MaxTries

\* `Non-OK response ${r.status}`
NonOkMessage(status) == <<"Non-OK response ", status>>

\* await r.text().catch(() => "")
TextOf(t) == IF t.readable THEN t.body ELSE ""

HttpOutcome(status) == [kind |-> "http", status |-> status, msg |-> <<>>]

ErrorOutcome(msg) == [kind |-> "error", status |-> 0, msg |-> msg]

\* ------------------------------------------------------------------------
\* State
\* ------------------------------------------------------------------------

VARIABLES
    pc,           \* where each POST /upload handler stands
    body,         \* req.body of each handler
    scriptUrl,    \* const scriptUrl
    forward,      \* const forward
    tryCount,     \* let tryCount
    lastErr,      \* let lastErr
    cur,          \* r.status of the Response the handler holds
    waits,        \* 500 ms timers the handler has sat out
    sent,         \* history: the fetch calls each handler has made, in order
    outcomes,     \* history: how each of those calls ended
    texts,        \* history: what awaiting r.text() met
    events,       \* history: the handler's awaits, in order
    responses,    \* the responses each handler has sent, in order
    tradingViewSymbols,  \* let tradingViewSymbols: the held snapshot
    clock,        \* the wall clock new Date() reads
    trail,        \* history: the last symbol-cache requests, newest last
    lastStored    \* history: req.body of the last write that was stored

relayVars == <<pc, body, scriptUrl, forward, tryCount, lastErr, cur, waits,
               sent, outcomes, texts, events, responses>>

cacheVars == <<tradingViewSymbols, clock, trail, lastStored>>

VARIABLES
    pifPc,        \* where the GET /fetch-pif handler of each source file stands
    pifSent,      \* history: the fetch calls the handler has made
    pifStatus,    \* response.status of the Response the handler holds
    pifResult,    \* history: what awaiting response.json() met
    pifResponses, \* the responses the handler has sent
    buPc,         \* where the POST /upload-bitunix handler stands
    buBody,       \* req.body of the handler
    buSent,       \* history: the fetch calls the handler has made
    buStatus,     \* response.status of the Response the handler holds
    buResult,     \* history: what awaiting response.json() met
    buResponses   \* the responses the handler has sent

pifVars == <<pifPc, pifSent, pifStatus, pifResult, pifResponses>>

bitunixVars == <<buPc, buBody, buSent, buStatus, buResult, buResponses>>

fetchVars == <<pifVars, bitunixVars>>

vars == <<relayVars, cacheVars, fetchVars>>

\* ------------------------------------------------------------------------
\* Relay endpoint: the responses
\* ------------------------------------------------------------------------

\* Date.now() - startTime, formatted `${elapsed}ms`.  Network latency is
\* not modelled: the time a handler has spent is the timers it sat out.
Elapsed(n) == <<n * BackoffMs, "ms">>

\* res.status(400).json({ ok: false, error: "No script URL configured." })
NoUrlResponse ==
    [code |-> 400, ok |-> FALSE, error |-> <<"No script URL configured.">>]

\* res.status(400).json({ ok: false, error: "Missing or invalid ..." })
BadValuesResponse ==
    [code |-> 400, ok |-> FALSE,
     error |-> <<"Missing or invalid 'values' array in payload.">>]

\* res.json({ ok: true, forwarded: true, status, text, elapsed })
SuccessResponse(status, text, n) ==
    [code |-> 200, ok |-> TRUE, forwarded |-> TRUE, status |-> status,
     text |-> text, elapsed |-> Elapsed(n)]

\* mutant: the upstream body is not passed on
ForwardFailedNoBody(status, text) ==
    [code |-> 502, ok |-> FALSE, error |-> <<"Forward failed ", status>>,
     status |-> status, gasResponse |-> ""]

\* res.status(502).json({ ok: false, error, status, gasResponse })
ForwardFailedResponse(status, text) ==
    [code |-> 502, ok |-> FALSE, error |-> <<"Forward failed ", status>>,
     status |-> status, gasResponse |-> text]

\* res.status(502).json({ ok: false, error, details: lastErr, elapsed })
ExhaustedResponse(err, n) ==
    [code |-> 502, ok |-> FALSE, error |-> <<"Forward failed after retry">>,
     details |-> err, elapsed |-> Elapsed(n)]

\* res.status(500).json({ ok: false, error, details: err.message, elapsed })
InternalErrorResponse(msg, n) ==
    [code |-> 500, ok |-> FALSE, error |-> <<"Internal server error">>,
     details |-> msg, elapsed |-> Elapsed(n)]

TypeErrorMessage == <<"Cannot convert object to primitive value">>

\* ------------------------------------------------------------------------
\* Relay endpoint: the handler, one action per stretch between awaits
\* ------------------------------------------------------------------------

InitRelay ==
    /\ pc = [r \in UploadIds |-> "idle"]
    /\ body = [r \in UploadIds |-> NoBody]
    /\ scriptUrl = [r \in UploadIds |-> <<>>]
    /\ forward = [r \in UploadIds |-> ForwardOf(NoBody)]
    /\ tryCount = [r \in UploadIds |-> 0]
    /\ lastErr = [r \in UploadIds |-> <<>>]
    /\ cur = [r \in UploadIds |-> 0]
    /\ waits = [r \in UploadIds |-> 0]
    /\ sent = [r \in UploadIds |-> <<>>]
    /\ outcomes = [r \in UploadIds |-> <<>>]
    /\ texts = [r \in UploadIds |-> <<>>]
    /\ events = [r \in UploadIds |-> <<>>]
    /\ responses = [r \in UploadIds |-> <<>>]

\* return res.status(...).json(...)
Respond(r, response) ==
    /\ responses' = [responses EXCEPT ![r] = Append(@, response)]
    /\ pc' = [pc EXCEPT ![r] = "done"]

\* tryCount++; await fetch(scriptUrl, {...})
Attempt(r, url, fwd) ==
    /\ tryCount' = [tryCount EXCEPT ![r] = @ + 1]
    /\ sent' = [sent EXCEPT ![r] = Append(@, FetchCall(url, fwd))]
    /\ events' = [events EXCEPT ![r] = Append(@, "fetch")]
    /\ pc' = [pc EXCEPT ![r] = "fetch"]

\* await new Promise(r => setTimeout(r, 500))
Backoff(r) ==
    /\ events' = [events EXCEPT ![r] = Append(@, "backoff")]
    /\ pc' = [pc EXCEPT ![r] = "backoff"]

\* the request arrives: the handler runs up to its first await or response
UploadStart(r, b) ==
    /\ pc[r] = "idle"
    /\ body' = [body EXCEPT ![r] = b]
    /\ IF Truthy(b.googleScriptUrl) /\ StringThrows(b.googleScriptUrl)
       THEN /\ Respond(r, InternalErrorResponse(TypeErrorMessage, waits[r]))
            /\ UNCHANGED <<scriptUrl, forward, tryCount, sent, events>>
       ELSE /\ scriptUrl' = [scriptUrl EXCEPT ![r] = ScriptUrlOf(b)]
            /\ IF ScriptUrlOf(b) = <<>>
               THEN /\ Respond(r, NoUrlResponse)
                    /\ UNCHANGED <<forward, tryCount, sent, events>>
               ELSE IF ValuesInvalid(b)
               THEN /\ Respond(r, BadValuesResponse)
                    /\ UNCHANGED <<forward, tryCount, sent, events>>
               ELSE /\ forward' = [forward EXCEPT ![r] = ForwardOf(b)]
                    /\ Attempt(r, ScriptUrlOf(b), ForwardOf(b))
                    /\ UNCHANGED responses
    /\ UNCHANGED <<lastErr, cur, waits, outcomes, texts>>
    /\ UNCHANGED <<cacheVars, fetchVars>>

\* mutant: a successful forward clears the held symbols
FetchResolveClearsSymbols(r, status) ==
    /\ pc[r] = "fetch"
    /\ cur' = [cur EXCEPT ![r] = status]
    /\ outcomes' = [outcomes EXCEPT ![r] = Append(@, HttpOutcome(status))]
    /\ IF IsSuccess(status)
       THEN /\ pc' = [pc EXCEPT ![r] = "textOk"]
            /\ events' = [events EXCEPT ![r] = Append(@, "text")]
            /\ UNCHANGED lastErr
       ELSE /\ lastErr' = [lastErr EXCEPT ![r] = NonOkMessage(status)]
            /\ IF RetryStatus(status, tryCount[r])
               THEN Backoff(r)
               ELSE /\ pc' = [pc EXCEPT ![r] = "textFail"]
                    /\ events' = [events EXCEPT ![r] = Append(@, "text")]
    /\ UNCHANGED <<body, scriptUrl, forward, tryCount, waits, sent, texts,
                   responses>>
    /\ tradingViewSymbols' =
           IF IsSuccess(status)
           THEN [symbols |-> Arr(<<>>), fullData |-> Arr(<<>>), timestamp |-> Null]
           ELSE tradingViewSymbols
    /\ UNCHANGED <<clock, trail, lastStored, fetchVars>>

\* await fetch resolves with a Response of the given status
FetchResolve(r, status) ==
    /\ pc[r] = "fetch"
    /\ cur' = [cur EXCEPT ![r] = status]
    /\ outcomes' = [outcomes EXCEPT ![r] = Append(@, HttpOutcome(status))]
    /\ IF IsSuccess(status)
       THEN /\ pc' = [pc EXCEPT ![r] = "textOk"]
            /\ events' = [events EXCEPT ![r] = Append(@, "text")]
            /\ UNCHANGED lastErr
       ELSE /\ lastErr' = [lastErr EXCEPT ![r] = NonOkMessage(status)]
            /\ IF RetryStatus(status, tryCount[r])
               THEN Backoff(r)
               ELSE /\ pc' = [pc EXCEPT ![r] = "textFail"]
                    /\ events' = [events EXCEPT ![r] = Append(@, "text")]
    /\ UNCHANGED <<body, scriptUrl, forward, tryCount, waits, sent, texts,
                   responses>>
    /\ UNCHANGED <<cacheVars, fetchVars>>

\* mutant: lastErr keeps the first failure instead of the latest
FetchRejectKeepsFirst(r, msg) ==
    LET err == IF lastErr[r] = <<>> THEN msg ELSE lastErr[r]
    IN  /\ pc[r] = "fetch"
        /\ outcomes' = [outcomes EXCEPT ![r] = Append(@, ErrorOutcome(msg))]
        /\ lastErr' = [lastErr EXCEPT ![r] = err]
        /\ IF RetryError(tryCount[r])
           THEN /\ Backoff(r)
                /\ UNCHANGED responses
           ELSE /\ Respond(r, ExhaustedResponse(err, waits[r]))
                /\ UNCHANGED events
        /\ UNCHANGED <<body, scriptUrl, forward, tryCount, cur, waits, sent,
                       texts>>
        /\ UNCHANGED <<cacheVars, fetchVars>>

\* await fetch rejects: catch (fetchErr)
FetchReject(r, msg) ==
    /\ pc[r] = "fetch"
    /\ outcomes' = [outcomes EXCEPT ![r] = Append(@, ErrorOutcome(msg))]
    /\ lastErr' = [lastErr EXCEPT ![r] = msg]
    /\ IF RetryError(tryCount[r])
       THEN /\ Backoff(r)
            /\ UNCHANGED responses
       ELSE /\ Respond(r, ExhaustedResponse(msg, waits[r]))
            /\ UNCHANGED events
    /\ UNCHANGED <<body, scriptUrl, forward, tryCount, cur, waits, sent, texts>>
    /\ UNCHANGED <<cacheVars, fetchVars>>

\* the 500 ms timer fires: continue; while (tryCount < 2)
BackoffDone(r) ==
    /\ pc[r] = "backoff"
    /\ waits' = [waits EXCEPT ![r] = @ + 1]
    /\ IF tryCount[r] < MaxTries
       THEN /\ Attempt(r, scriptUrl[r], forward[r])
            /\ UNCHANGED responses
       ELSE /\ Respond(r, ExhaustedResponse(lastErr[r], waits[r] + 1))
            /\ UNCHANGED <<tryCount, sent, events>>
    /\ UNCHANGED <<body, scriptUrl, forward, lastErr, cur, outcomes, texts>>
    /\ UNCHANGED <<cacheVars, fetchVars>>

\* mutant: no return after the response, the code after the loop responds too
TextDoneFallsThrough(r, t) ==
    /\ pc[r] \in {"textOk", "textFail"}
    /\ texts' = [texts EXCEPT ![r] = Append(@, t)]
    /\ responses' = [responses EXCEPT ![r] =
           <<IF pc[r] = "textOk"
             THEN SuccessResponse(cur[r], TextOf(t), waits[r])
             ELSE ForwardFailedResponse(cur[r], TextOf(t)),
             ExhaustedResponse(lastErr[r], waits[r])>>]
    /\ pc' = [pc EXCEPT ![r] = "done"]
    /\ UNCHANGED <<body, scriptUrl, forward, tryCount, lastErr, cur, waits,
                   sent, outcomes, events>>
    /\ UNCHANGED <<cacheVars, fetchVars>>

\* await r.text().catch(() => "") settles: the handler responds
TextDone(r, t) ==
    /\ pc[r] \in {"textOk", "textFail"}
    /\ texts' = [texts EXCEPT ![r] = Append(@, t)]
    /\ IF pc[r] = "textOk"
       THEN Respond(r, SuccessResponse(cur[r], TextOf(t), waits[r]))
       ELSE Respond(r, ForwardFailedResponse(cur[r], TextOf(t)))
    /\ UNCHANGED <<body, scriptUrl, forward, tryCount, lastErr, cur, waits,
                   sent, outcomes, events>>
    /\ UNCHANGED <<cacheVars, fetchVars>>

\* ------------------------------------------------------------------------
\* Symbol cache: POST /update-symbols and GET /symbols/tradingview
\* ------------------------------------------------------------------------

\* req.body of the requests the model sends to POST /update-symbols
SymbolBodies ==
    { [symbols |-> Arr(<<"BTCUSD", "ETHUSD">>), fullData |-> Undefined,
       timestamp |-> Undefined],
      [symbols |-> Arr(<<"ETHUSD", "BTCUSD">>),
       fullData |-> Arr(<<[symbol |-> "ETHUSD"]>>),
       timestamp |-> Str(<<"t">>)],
      [symbols |-> Arr(<<"BTCUSD">>),
       fullData |-> Arr(<<[symbol |-> "BTCUSD"]>>),
       timestamp |-> Undefined],
      [symbols |-> Arr(<<>>), fullData |-> Undefined,
       timestamp |-> Str(<<"t">>)],
      [symbols |-> Undefined, fullData |-> Arr(<<[symbol |-> "BTCUSD"]>>),
       timestamp |-> Str(<<"t">>)],
      [symbols |-> Str(<<"B">>), fullData |-> Undefined,
       timestamp |-> Undefined],
      [symbols |-> Null, fullData |-> Undefined, timestamp |-> Undefined] }

NoSymbolBody ==
    [symbols |-> Undefined, fullData |-> Undefined, timestamp |-> Undefined]

Digits == <<"0", "1", "2", "3", "4", "5", "6", "7", "8", "9">>

\* new Date().toISOString()
ToISOString(now) == <<"T", Digits[now + 1]>>

\* let tradingViewSymbols = { symbols: [], fullData: [], timestamp: null }
EmptySnapshot ==
    [symbols |-> Arr(<<>>), fullData |-> Arr(<<>>), timestamp |-> Null]

\* mutant: only a missing symbols is rejected
SymbolsMissing(b) == ~Truthy(b.symbols)

\* !symbols || !Array.isArray(symbols)
SymbolsInvalid(b) == ~Truthy(b.symbols) \/ ~IsArray(b.symbols)

\* mutant: fields the request omits keep their held values
SnapshotOfMerging(b, now) ==
    [symbols |-> b.symbols,
     fullData |-> OrElse(b.fullData, tradingViewSymbols.fullData),
     timestamp |-> OrElse(b.timestamp, Str(ToISOString(now)))]

\* { symbols, fullData: fullData || [], timestamp: timestamp || now }
SnapshotOf(b, now) ==
    [symbols |-> b.symbols,
     fullData |-> OrElse(b.fullData, Arr(<<>>)),
     timestamp |-> OrElse(b.timestamp, Str(ToISOString(now)))]

\* res.status(400).json({ success: false, error: "Invalid symbols format" })
InvalidSymbolsResponse ==
    [code |-> 400, success |-> FALSE, error |-> <<"Invalid symbols format">>]

\* res.json({ success: true, message, count: symbols.length })
StoredResponse(b) ==
    [code |-> 200, success |-> TRUE,
     message |-> <<Len(b.symbols.v), " symbols stored">>,
     count |-> Len(b.symbols.v)]

\* mutant: the sentinel is returned only until the first write
NeverWritten(snapshot) == snapshot.timestamp = Null

\* tradingViewSymbols.symbols.length === 0
NothingHeld(snapshot) == Len(snapshot.symbols.v) = 0

\* res.json({ success: false, message, symbols: [], count: 0 })
NoSymbolsResponse ==
    [code |-> 200, success |-> FALSE,
     message |-> <<"No symbols available. Run BitUnix scraper first.">>,
     symbols |-> Arr(<<>>), count |-> 0]

\* res.json({ success: true, symbols, count, timestamp })
SymbolsResponse(snapshot) ==
    [code |-> 200, success |-> TRUE, symbols |-> snapshot.symbols,
     count |-> Len(snapshot.symbols.v), timestamp |-> snapshot.timestamp]

\* the response of GET /symbols/tradingview
ReadResponse(snapshot) ==
    IF NothingHeld(snapshot) THEN NoSymbolsResponse
    ELSE SymbolsResponse(snapshot)

\* the model remembers the last TrailLen requests to the cache
KeepTrail(entry) ==
    IF Len(trail) < TrailLen THEN Append(trail, entry)
    ELSE Append(Tail(trail), entry)

InitCache ==
    /\ tradingViewSymbols = EmptySnapshot
    /\ clock = 0
    /\ trail = <<>>
    /\ lastStored = NoSymbolBody

\* mutant: the new symbols are appended to the held ones
UpdateSymbolsAppending(b) ==
    LET merged == [SnapshotOf(b, clock) EXCEPT
                      !.symbols = Arr(tradingViewSymbols.symbols.v \o @.v)]
    IN  /\ IF SymbolsInvalid(b)
           THEN /\ UNCHANGED tradingViewSymbols
                /\ trail' = KeepTrail([op |-> "write", body |-> b,
                                       before |-> tradingViewSymbols,
                                       after |-> tradingViewSymbols,
                                       response |-> InvalidSymbolsResponse])
                /\ UNCHANGED lastStored
           ELSE /\ tradingViewSymbols' = merged
                /\ trail' = KeepTrail([op |-> "write", body |-> b,
                                       before |-> tradingViewSymbols,
                                       after |-> merged,
                                       response |-> StoredResponse(b)])
                /\ lastStored' = b
        /\ UNCHANGED <<clock, relayVars, fetchVars>>

\* app.post("/update-symbols")
UpdateSymbols(b) ==
    /\ IF SymbolsInvalid(b)
       THEN /\ UNCHANGED tradingViewSymbols
            /\ trail' = KeepTrail([op |-> "write", body |-> b,
                                   before |-> tradingViewSymbols,
                                   after |-> tradingViewSymbols,
                                   response |-> InvalidSymbolsResponse])
            /\ UNCHANGED lastStored
       ELSE /\ tradingViewSymbols' = SnapshotOf(b, clock)
            /\ trail' = KeepTrail([op |-> "write", body |-> b,
                                   before |-> tradingViewSymbols,
                                   after |-> SnapshotOf(b, clock),
                                   response |-> StoredResponse(b)])
            /\ lastStored' = b
    /\ UNCHANGED <<clock, relayVars, fetchVars>>

\* app.get("/symbols/tradingview")
GetSymbols ==
    /\ trail' = KeepTrail([op |-> "read", body |-> NoSymbolBody,
                           before |-> tradingViewSymbols,
                           after |-> tradingViewSymbols,
                           response |-> ReadResponse(tradingViewSymbols)])
    /\ UNCHANGED <<tradingViewSymbols, clock, lastStored, relayVars, fetchVars>>

\* time passes
Tick ==
    /\ clock < MaxClock
    /\ clock' = clock + 1
    /\ UNCHANGED <<tradingViewSymbols, trail, lastStored, relayVars, fetchVars>>

\* ------------------------------------------------------------------------
\* Read-through fetch: GET /fetch-pif, as written in each source file
\* ------------------------------------------------------------------------

PIF_APPS_SCRIPT == <<"P">>

\* the two copies of the handler
PifFiles == {"server.js", "part_000"}

\* part_000 throws on !response.ok before it parses; server.js does not
ChecksOk(f) == f = "part_000"

\* fetch(`${PIF_APPS_SCRIPT}?action=fetchPIF`), with { timeout: 15000 } in
\* part_000 and without options in server.js (timeout 0: none)
PifCall(f) ==
    [url |-> PIF_APPS_SCRIPT \o <<"?action=fetchPIF">>, method |-> "GET",
     timeout |-> IF f = "part_000" THEN FetchTimeoutMs ELSE 0]

PifStatuses == {200, 404, 500}

PifEntries == <<"pif1", "pif2">>

NoResult == [kind |-> "none"]

InvalidJson == [kind |-> "invalid"]

Envelope(success, data) == [kind |-> "object", success |-> success, data |-> data]

\* what await response.json() gives: a rejection for a body that is not
\* JSON, the value null, or an envelope object
JsonResults ==
    { InvalidJson,
      [kind |-> "null"],
      Envelope(Bool(TRUE), Arr(PifEntries)),
      Envelope(Bool(TRUE), Arr(<<>>)),
      Envelope(Bool(TRUE), Undefined),
      Envelope(Bool(FALSE), Undefined),
      Envelope(Undefined, Arr(PifEntries)) }

StatusText(status) ==
    <<Digits[(status \div 100) + 1], Digits[((status \div 10) % 10) + 1],
      Digits[(status % 10) + 1]>>

\* res.json({ success: true, data: result.data })
PifData(data) == [code |-> 200, success |-> TRUE, data |-> data]

\* res.status(500).json({ success: false, error })
PifError(msg) == [code |-> 500, success |-> FALSE, error |-> msg]

\* the handler from the parsed result on: result.success, result.data.length
PifAnswer(result) ==
    CASE result.kind = "invalid" -> PifError(<<"invalid json response body">>)
      [] result.kind = "null" -> PifError(<<"Cannot read properties of null">>)
      [] OTHER ->
           IF Truthy(result.success)
           THEN IF result.data.t \in {"undefined", "null"}
                THEN PifError(<<"Cannot read properties of undefined">>)
                ELSE PifData(result.data)
           ELSE PifError(<<"Failed to fetch PIF data">>)

InitPif ==
    /\ pifPc = [f \in PifFiles |-> "idle"]
    /\ pifSent = [f \in PifFiles |-> <<>>]
    /\ pifStatus = [f \in PifFiles |-> 0]
    /\ pifResult = [f \in PifFiles |-> NoResult]
    /\ pifResponses = [f \in PifFiles |-> <<>>]

PifRespond(f, response) ==
    /\ pifResponses' = [pifResponses EXCEPT ![f] = Append(@, response)]
    /\ pifPc' = [pifPc EXCEPT ![f] = "done"]

\* GET /fetch-pif arrives: the handler runs to await fetch(...)
PifStart(f) ==
    /\ pifPc[f] = "idle"
    /\ pifSent' = [pifSent EXCEPT ![f] = Append(@, PifCall(f))]
    /\ pifPc' = [pifPc EXCEPT ![f] = "fetch"]
    /\ UNCHANGED <<pifStatus, pifResult, pifResponses>>
    /\ UNCHANGED <<relayVars, cacheVars, bitunixVars>>

\* await fetch(...) resolves with a Response
PifResolve(f, status) ==
    /\ pifPc[f] = "fetch"
    /\ pifStatus' = [pifStatus EXCEPT ![f] = status]
    /\ IF ChecksOk(f) /\ ~IsOk(status)
       THEN PifRespond(f, PifError(<<"PIF Apps Script returned ">> \o StatusText(status)))
       ELSE /\ pifPc' = [pifPc EXCEPT ![f] = "json"]
            /\ UNCHANGED pifResponses
    /\ UNCHANGED <<pifSent, pifResult>>
    /\ UNCHANGED <<relayVars, cacheVars, bitunixVars>>

\* await fetch(...) rejects: the catch answers
PifReject(f, msg) ==
    /\ pifPc[f] = "fetch"
    /\ PifRespond(f, PifError(msg))
    /\ UNCHANGED <<pifSent, pifStatus, pifResult>>
    /\ UNCHANGED <<relayVars, cacheVars, bitunixVars>>

\* await response.json() settles: the handler answers
PifJson(f, result) ==
    /\ pifPc[f] = "json"
    /\ pifResult' = [pifResult EXCEPT ![f] = result]
    /\ PifRespond(f, PifAnswer(result))
    /\ UNCHANGED <<pifSent, pifStatus>>
    /\ UNCHANGED <<relayVars, cacheVars, bitunixVars>>

\* ------------------------------------------------------------------------
\* BitUnix upload: POST /upload-bitunix
\* ------------------------------------------------------------------------

BITUNIX_APPS_SCRIPT == <<"B">>

\* req.body of the requests the model sends to POST /upload-bitunix
BitunixBodies ==
    { [data |-> Arr(<<Row, Row>>)],
      [data |-> Arr(<<Row>>)],
      [data |-> Arr(<<>>)],
      [data |-> Undefined],
      [data |-> Null],
      [data |-> Str(<<"BTCUSD">>)],
      [data |-> Obj(<<"rows">>)] }

NoBitunixBody == [data |-> Undefined]

\* error.message of a rejected fetch; the last one is what fetch gives for
\* the placeholder "REPLACE_WITH_BITUNIX_APPS_SCRIPT_URL"
BitunixErrors == NetErrors \cup {<<"Only absolute URLs are supported">>}

\* !data || !Array.isArray(data)
DataInvalid(b) == ~Truthy(b.data) \/ ~IsArray(b.data)

\* fetch(BITUNIX_APPS_SCRIPT, { method: "POST", headers, body })
BitunixCall(data) ==
    [url |-> BITUNIX_APPS_SCRIPT, method |-> "POST",
     body |-> << <<"action", Str(<<"uploadBitUnix">>)>>, <<"data", data>> >>,
     timeout |-> 0]

\* res.status(400).json({ success: false, error: "Invalid data format" })
InvalidDataResponse ==
    [code |-> 400, success |-> FALSE, error |-> <<"Invalid data format">>]

\* res.json({ success: true, message, result })
UploadedResponse(data, result) ==
    [code |-> 200, success |-> TRUE,
     message |-> <<Digits[Len(data.v) + 1], " rows uploaded successfully">>,
     result |-> result]

\* res.status(500).json({ success: false, error: error.message })
BitunixError(msg) == [code |-> 500, success |-> FALSE, error |-> msg]

InitBitunix ==
    /\ buPc = "idle"
    /\ buBody = NoBitunixBody
    /\ buSent = <<>>
    /\ buStatus = 0
    /\ buResult = NoResult
    /\ buResponses = <<>>

BitunixRespond(response) ==
    /\ buResponses' = Append(buResponses, response)
    /\ buPc' = "done"

\* POST /upload-bitunix arrives: the handler runs to its first await or to
\* its response
BitunixStart(b) ==
    /\ buPc = "idle"
    /\ buBody' = b
    /\ IF DataInvalid(b)
       THEN /\ BitunixRespond(InvalidDataResponse)
            /\ UNCHANGED buSent
       ELSE /\ buSent' = Append(buSent, BitunixCall(b.data))
            /\ buPc' = "fetch"
            /\ UNCHANGED buResponses
    /\ UNCHANGED <<buStatus, buResult>>
    /\ UNCHANGED <<relayVars, cacheVars, pifVars>>

\* mutant: a non-OK upstream status is thrown to the catch
BitunixResolveChecksOk(status) ==
    /\ buPc = "fetch"
    /\ buStatus' = status
    /\ IF IsOk(status)
       THEN buPc' = "json" /\ UNCHANGED buResponses
       ELSE BitunixRespond(BitunixError(<<"Upstream returned ">> \o StatusText(status)))
    /\ UNCHANGED <<buBody, buSent, buResult>>
    /\ UNCHANGED <<relayVars, cacheVars, pifVars>>

\* await fetch(...) resolves with a Response, whatever its status
BitunixResolve(status) ==
    /\ buPc = "fetch"
    /\ buStatus' = status
    /\ buPc' = "json"
    /\ UNCHANGED <<buBody, buSent, buResult, buResponses>>
    /\ UNCHANGED <<relayVars, cacheVars, pifVars>>

\* await fetch(...) rejects: the catch answers
BitunixReject(msg) ==
    /\ buPc = "fetch"
    /\ BitunixRespond(BitunixError(msg))
    /\ UNCHANGED <<buBody, buSent, buStatus, buResult>>
    /\ UNCHANGED <<relayVars, cacheVars, pifVars>>

\* await response.json() settles: the handler answers
BitunixJson(result) ==
    /\ buPc = "json"
    /\ buResult' = result
    /\ IF result.kind = "invalid"
       THEN BitunixRespond(BitunixError(<<"invalid json response body">>))
       ELSE BitunixRespond(UploadedResponse(buBody.data, result))
    /\ UNCHANGED <<buBody, buSent, buStatus>>
    /\ UNCHANGED <<relayVars, cacheVars, pifVars>>

\* ------------------------------------------------------------------------
\* Specifications
\* ------------------------------------------------------------------------

Init == InitRelay /\ InitCache /\ InitPif /\ InitBitunix

\* the relay: NumUploads POST /upload requests handled concurrently
Next ==
    \/ \E r \in UploadIds, b \in UploadBodies : UploadStart(r, b)
    \/ \E r \in UploadIds, status \in Statuses : FetchResolve(r, status)
    \/ \E r \in UploadIds, msg \in NetErrors : FetchReject(r, msg)
    \/ \E r \in UploadIds : BackoffDone(r)
    \/ \E r \in UploadIds, t \in TextOutcomes : TextDone(r, t)

Spec == Init /\ [][Next]_vars

\* the symbol cache: writes and reads in any order
NextCache ==
    \/ \E b \in SymbolBodies : UpdateSymbols(b)
    \/ GetSymbols
    \/ Tick

SpecCache == Init /\ [][NextCache]_vars

\* the read-through fetch of both files and the BitUnix upload
NextFetch ==
    \/ \E f \in PifFiles : PifStart(f)
    \/ \E f \in PifFiles, status \in PifStatuses : PifResolve(f, status)
    \/ \E f \in PifFiles, msg \in NetErrors : PifReject(f, msg)
    \/ \E f \in PifFiles, result \in JsonResults : PifJson(f, result)
    \/ \E b \in BitunixBodies : BitunixStart(b)
    \/ \E status \in PifStatuses : BitunixResolve(status)
    \/ \E msg \in BitunixErrors : BitunixReject(msg)
    \/ \E result \in JsonResults : BitunixJson(result)

SpecFetch == Init /\ [][NextFetch]_vars

\* the whole server: one relay request, one read-through fetch and any
\* number of cache requests, interleaved at the handlers' awaits
ServerUploads == {1}

ServerUploadBodies ==
    {b \in UploadBodies : b.sheetName.t = "undefined" /\ b.values.t # "null"
                          /\ b.googleScriptUrl.t # "string"}

ServerStatuses == {200, 403, 503}

ServerSymbolBodies ==
    {b \in SymbolBodies : b.symbols.t = "null" \/ Len(b.symbols.v) = 2}

ServerJsonResults ==
    {result \in JsonResults :
        result.kind = "object" => result.data # Arr(<<>>) /\ result.success.t = "boolean"}

NextServer ==
    \/ \E r \in ServerUploads, b \in ServerUploadBodies : UploadStart(r, b)
    \/ \E r \in ServerUploads, status \in ServerStatuses : FetchResolve(r, status)
    \/ \E r \in ServerUploads : FetchReject(r, <<"ECONNRESET">>)
    \/ \E r \in ServerUploads : BackoffDone(r)
    \/ \E r \in ServerUploads, t \in TextOutcomes : TextDone(r, t)
    \/ PifStart("server.js")
    \/ \E status \in PifStatuses : PifResolve("server.js", status)
    \/ PifReject("server.js", <<"ECONNRESET">>)
    \/ \E result \in ServerJsonResults : PifJson("server.js", result)
    \/ \E b \in ServerSymbolBodies : UpdateSymbols(b)
    \/ GetSymbols

SpecServer == Init /\ [][NextServer]_vars

\* every awaited promise of a handler settles: the outbound call (resolved,
\* rejected or timed out after 15 s), the body read and the backoff timer
Settles ==
    \A r \in UploadIds :
        /\ WF_vars(\/ \E status \in Statuses : FetchResolve(r, status)
                   \/ \E msg \in NetErrors : FetchReject(r, msg))
        /\ WF_vars(\E t \in TextOutcomes : TextDone(r, t))
        /\ WF_vars(BackoffDone(r))

\* the relay under the assumption that every awaited promise settles
SpecLive == Spec /\ Settles

\* ------------------------------------------------------------------------
\* Vocabulary of the properties
\* ------------------------------------------------------------------------

\* the attempt ended in a network-level error or an HTTP status >= 500
Transient(o) == o.kind = "error" \/ (o.kind = "http" /\ o.status >= 500)

\* the attempt returned 200-299 or 302
Succeeded(o) ==
    o.kind = "http" /\ ((o.status >= 200 /\ o.status <= 299) \/ o.status = 302)

\* the attempt returned any other status
Permanent(o) == o.kind = "http" /\ ~Succeeded(o) /\ o.status < 500

Done(r) == pc[r] = "done"

Has(response, f) == f \in DOMAIN response

\* number of backoff waits the handler has begun
BackoffsBegun(r) ==
    Cardinality({i \in 1 .. Len(events[r]) : events[r][i] = "backoff"})

\* ------------------------------------------------------------------------
\* C1..C7: the relay
\* ------------------------------------------------------------------------

\* C1: every POST /upload request makes at most 2 outbound POST attempts,
\* whatever the other requests do, and makes a second one only if the first
\* ended in a transient failure (network error or status >= 500).
C1_AtMostTwoAttempts ==
    \A r \in UploadIds :
        /\ Len(sent[r]) <= 2
        /\ Len(sent[r]) = 2 =>
              /\ Len(outcomes[r]) >= 1
              /\ Transient(outcomes[r][1])

\* two handlers are in flight at once; one is on its second attempt after a
\* transient failure, the other stopped after a single attempt
C1_Witness ==
    \E r, q \in UploadIds :
        /\ r # q
        /\ Len(sent[r]) = 2 /\ pc[r] = "fetch"
        /\ Transient(outcomes[r][1])
        /\ Len(sent[q]) = 1 /\ pc[q] = "textFail"

\* C2: when the first attempt ends in a transient failure the relay retries
\* exactly once, and when that second attempt returns a success status the
\* relay answers 200 with ok:true and the second attempt's status.
C2_RetryThenSuccess ==
    \A r \in UploadIds :
        (Done(r) /\ Len(outcomes[r]) >= 1 /\ Transient(outcomes[r][1])) =>
            /\ Len(sent[r]) = 2
            /\ Len(outcomes[r]) = 2
            /\ Succeeded(outcomes[r][2]) =>
                  /\ Len(responses[r]) = 1
                  /\ responses[r][1].code = 200
                  /\ responses[r][1].ok = TRUE
                  /\ responses[r][1].status = outcomes[r][2].status

\* a request has answered after a network error followed by a 302
C2_Witness ==
    \E r \in UploadIds :
        /\ Done(r)
        /\ Len(outcomes[r]) = 2
        /\ outcomes[r][1].kind = "error"
        /\ outcomes[r][2] = HttpOutcome(302)
        /\ responses[r][1].status = 302

\* the part of C3 that does not concern the body: a permanent-failure status
\* ends the attempts at once, on either attempt, without a backoff wait
StopsOnPermanent(r, i) ==
    /\ i = Len(outcomes[r])
    /\ Len(sent[r]) = i
    /\ BackoffsBegun(r) = i - 1
    /\ pc[r] \in {"textFail", "done"}
    /\ Done(r) =>
          /\ Len(responses[r]) = 1
          /\ responses[r][1].code = 502
          /\ responses[r][1].ok = FALSE
          /\ responses[r][1].status = outcomes[r][i].status
          /\ Has(responses[r][1], "gasResponse")

\* C3 as stated: on a permanent-failure status (not 200-299, not 302, below
\* 500) the relay stops at once, on either attempt, and answers 502 with
\* ok:false, the upstream status and the raw upstream body.
C3_Original ==
    \A r \in UploadIds : \A i \in 1 .. Len(outcomes[r]) :
        Permanent(outcomes[r][i]) =>
            /\ StopsOnPermanent(r, i)
            /\ Done(r) => responses[r][1].gasResponse = texts[r][1].body

\* C3 as amended: ... and the upstream body, or the empty string when reading
\* the upstream body fails.
C3_PermanentStops ==
    \A r \in UploadIds : \A i \in 1 .. Len(outcomes[r]) :
        Permanent(outcomes[r][i]) =>
            /\ StopsOnPermanent(r, i)
            /\ Done(r) =>
                  responses[r][1].gasResponse =
                      IF texts[r][1].readable THEN texts[r][1].body ELSE ""

\* a 403 on the first attempt was answered after exactly one attempt, and a
\* 403 on the second attempt was answered too
C3_Witness ==
    \E r, q \in UploadIds :
        /\ Done(r) /\ outcomes[r] = <<HttpOutcome(403)>>
        /\ Len(sent[r]) = 1 /\ responses[r][1].gasResponse = "Denied"
        /\ Done(q) /\ Len(outcomes[q]) = 2 /\ outcomes[q][2] = HttpOutcome(403)

\* the part of C4 that does not concern the text: how each attempt's outcome
\* is classified, seen in what the handler does next
ClassifiedAs(r, i) ==
    LET o == outcomes[r][i]
        last == i = Len(outcomes[r])
    IN  /\ Succeeded(o) =>
              /\ last /\ Len(sent[r]) = i
              /\ pc[r] \in {"textOk", "done"}
              /\ Done(r) =>
                    /\ Len(responses[r]) = 1
                    /\ responses[r][1].code = 200
                    /\ responses[r][1].ok = TRUE
                    /\ responses[r][1].status = o.status
                    /\ Has(responses[r][1], "text")
        /\ (Transient(o) /\ i = 1) =>
              \/ last /\ pc[r] = "backoff"
              \/ Len(sent[r]) = 2
        /\ Permanent(o) =>
              /\ last /\ Len(sent[r]) = i
              /\ pc[r] \in {"textFail", "done"}
              /\ Done(r) => responses[r][1].code = 502

\* C4 as stated: 200-299 and 302 are Success, status >= 500 and network
\* errors are TransientFailure, every other status is PermanentFailure; on
\* Success the relay answers 200 with ok:true, the upstream status and the
\* upstream body text unchanged, and makes no further attempt.
C4_Original ==
    \A r \in UploadIds : \A i \in 1 .. Len(outcomes[r]) :
        /\ ClassifiedAs(r, i)
        /\ (Succeeded(outcomes[r][i]) /\ Done(r)) =>
              responses[r][1].text = texts[r][1].body

\* C4 as amended: ... and text equal to the upstream body text, or the empty
\* string when reading the upstream body fails.
C4_SuccessPassThrough ==
    \A r \in UploadIds : \A i \in 1 .. Len(outcomes[r]) :
        /\ ClassifiedAs(r, i)
        /\ (Succeeded(outcomes[r][i]) /\ Done(r)) =>
              responses[r][1].text =
                  IF texts[r][1].readable THEN texts[r][1].body ELSE ""

\* a 302 on the first attempt was answered ok:true, status 302, with the body
C4_Witness ==
    \E r \in UploadIds :
        /\ Done(r) /\ outcomes[r] = <<HttpOutcome(302)>>
        /\ responses[r][1].ok = TRUE
        /\ responses[r][1].status = 302
        /\ responses[r][1].text = "OK"

\* the request's values field is missing or is not an array
ValuesNotASequence(r) == pc[r] # "idle" /\ body[r].values.t # "array"

\* C5: a relay request whose values is missing or not an array is answered
\* 400 with ok:false, and no outbound call is attempted for it.
C5_InvalidValuesRejected ==
    \A r \in UploadIds :
        ValuesNotASequence(r) =>
            /\ sent[r] = <<>>
            /\ Done(r)
            /\ Len(responses[r]) = 1
            /\ responses[r][1].code = 400
            /\ responses[r][1].ok = FALSE

\* the response reports what the given attempt ended with
ReportsAttempt(response, o) ==
    \/ /\ o.kind = "error"
       /\ Has(response, "details") /\ response.details = o.msg
    \/ /\ o.kind = "http"
       /\ \/ Has(response, "status") /\ response.status = o.status
          \/ /\ Has(response, "details")
             /\ response.details = <<"Non-OK response ", o.status>>

\* C6: when both attempts end in a transient failure the relay answers 502
\* with ok:false and the error detail of the second attempt, not the first.
C6_LastErrorReported ==
    \A r \in UploadIds :
        ( /\ Done(r) /\ Len(outcomes[r]) = 2
          /\ Transient(outcomes[r][1]) /\ Transient(outcomes[r][2]) ) =>
            /\ Len(responses[r]) = 1
            /\ responses[r][1].code = 502
            /\ responses[r][1].ok = FALSE
            /\ ReportsAttempt(responses[r][1], outcomes[r][2])
            /\ outcomes[r][1] # outcomes[r][2] =>
                  ~ReportsAttempt(responses[r][1], outcomes[r][1])

\* two different network errors in a row, and a 503 after a 500, were answered
C6_Witness ==
    \E r, q \in UploadIds :
        /\ Done(r) /\ Len(outcomes[r]) = 2
        /\ outcomes[r][1].kind = "error" /\ outcomes[r][2].kind = "error"
        /\ outcomes[r][1] # outcomes[r][2]
        /\ Done(q)
        /\ outcomes[q] = <<HttpOutcome(500), HttpOutcome(503)>>

\* C7: every response of the relay endpoint carries an elapsed field.
C7_EveryResponseHasElapsed ==
    \A r \in UploadIds : \A i \in 1 .. Len(responses[r]) :
        Has(responses[r][i], "elapsed")

\* ------------------------------------------------------------------------
\* C8..C10: the symbol cache
\* ------------------------------------------------------------------------

Latest == trail[Len(trail)]

NonEmptyArray(x) == x.t = "array" /\ Len(x.v) > 0

\* C8: a write with a non-empty sequence S returns success:true with count
\* Len(S), and a read with no write stored since returns success:true,
\* symbols equal to S in the same order and count Len(S).
C8_WriteThenRead ==
    trail # <<>> =>
        /\ (Latest.op = "write" /\ NonEmptyArray(Latest.body.symbols)) =>
              /\ Latest.response.code = 200
              /\ Latest.response.success = TRUE
              /\ Latest.response.count = Len(Latest.body.symbols.v)
        /\ (Latest.op = "read" /\ NonEmptyArray(lastStored.symbols)) =>
              /\ Latest.response.success = TRUE
              /\ Latest.response.symbols = lastStored.symbols
              /\ Latest.response.count = Len(lastStored.symbols.v)

\* BTCUSD, ETHUSD was written, a rejected write followed, and the read
\* returned the two symbols in that order
C8_Witness ==
    /\ Len(trail) >= 2
    /\ trail[Len(trail) - 1].op = "write"
    /\ trail[Len(trail) - 1].response.code = 400
    /\ Latest.op = "read"
    /\ lastStored.symbols = Arr(<<"BTCUSD", "ETHUSD">>)
    /\ Latest.response.symbols = Arr(<<"BTCUSD", "ETHUSD">>)
    /\ Latest.response.count = 2

\* C9: a read returns the sentinel (success:false, no symbols, count 0, a
\* message) exactly when the held symbols are empty, which is so before any
\* write and after an empty write replaces a non-empty snapshot; otherwise
\* it returns success:true with the held symbols, their count and timestamp.
C9_SentinelIffEmpty ==
    (trail # <<>> /\ Latest.op = "read") =>
        LET response == Latest.response
            sentinel == /\ response.success = FALSE
                        /\ response.symbols = Arr(<<>>)
                        /\ response.count = 0
                        /\ Has(response, "message")
        IN  /\ sentinel <=> Len(tradingViewSymbols.symbols.v) = 0
            /\ lastStored = NoSymbolBody => sentinel
            /\ lastStored.symbols = Arr(<<>>) => sentinel
            /\ ~sentinel =>
                  /\ response.success = TRUE
                  /\ response.symbols = tradingViewSymbols.symbols
                  /\ response.count = Len(tradingViewSymbols.symbols.v)
                  /\ response.timestamp = tradingViewSymbols.timestamp

\* an empty write replaced a non-empty snapshot and the read that followed
\* returned the sentinel
C9_Witness ==
    /\ Len(trail) >= 2
    /\ trail[Len(trail) - 1].op = "write"
    /\ trail[Len(trail) - 1].body.symbols = Arr(<<>>)
    /\ NonEmptyArray(trail[Len(trail) - 1].before.symbols)
    /\ Latest.op = "read" /\ Latest.response.success = FALSE

\* C10: a write whose symbols is missing or not an array is answered 400
\* with success:false and leaves symbols, fullData and timestamp as they
\* were, so a read that follows, with nothing stored in between, returns
\* what the read before the rejected write returned.
C10_RejectedWriteKeepsSnapshot ==
    \A i \in 1 .. Len(trail) :
        (trail[i].op = "write" /\ trail[i].body.symbols.t # "array") =>
            /\ trail[i].response.code = 400
            /\ trail[i].response.success = FALSE
            /\ trail[i].after = trail[i].before
            /\ (i = Len(trail)) => tradingViewSymbols = trail[i].before
            /\ (i > 1 /\ trail[i - 1].op = "read") =>
                  \A j \in i + 1 .. Len(trail) :
                      ( /\ trail[j].op = "read"
                        /\ \A k \in i + 1 .. j - 1 :
                              trail[k].after = trail[k].before ) =>
                          trail[j].response = trail[i - 1].response

\* a read, a rejected write and a second read, over a non-empty snapshot
C10_Witness ==
    /\ Len(trail) >= 3
    /\ trail[Len(trail) - 2].op = "read"
    /\ trail[Len(trail) - 2].response.success = TRUE
    /\ trail[Len(trail) - 1].op = "write"
    /\ trail[Len(trail) - 1].body.symbols = Str(<<"B">>)
    /\ Latest.op = "read"
    /\ Latest.response = trail[Len(trail) - 2].response

\* ------------------------------------------------------------------------
\* C12, C14, C15, C17, C19: the relay, continued
\* ------------------------------------------------------------------------

\* the forwarded body has the two fields sheetName and values, in that order
ForwardedBody(sheetName, values) ==
    << <<"sheetName", sheetName>>, <<"values", values>> >>

SheetOne == [t |-> "string", v |-> <<"Sheet1">>]

\* C12 as stated: the body of every outbound POST is exactly the fields
\* sheetName and values; values is the request's values, sheetName is the
\* request's sheetName or "Sheet1" when absent, and the destination override
\* is never in it, on the first attempt and on the retry alike.
C12_Original ==
    \A r \in UploadIds : \A i \in 1 .. Len(sent[r]) :
        sent[r][i].body =
            ForwardedBody(IF body[r].sheetName.t = "undefined"
                          THEN SheetOne ELSE body[r].sheetName,
                          body[r].values)

\* C12 as amended: ... sheetName is the request's sheetName, or "Sheet1"
\* when it is absent or falsy (an empty string, null) ...
C12_ForwardedBody ==
    \A r \in UploadIds : \A i \in 1 .. Len(sent[r]) :
        sent[r][i].body =
            ForwardedBody(IF \/ body[r].sheetName.t \in {"undefined", "null"}
                             \/ body[r].sheetName = [t |-> "string", v |-> <<>>]
                          THEN SheetOne ELSE body[r].sheetName,
                          body[r].values)

\* a request with an override and its own sheetName has made its retry, and
\* a request with an empty sheetName has made a call
C12_Witness ==
    \E r, q \in UploadIds :
        /\ Len(sent[r]) = 2
        /\ body[r].googleScriptUrl.t = "string"
        /\ body[r].sheetName.v = <<"D">>
        /\ sent[r][2].body[1][2].v = <<"D">>
        /\ Len(sent[q]) >= 1
        /\ body[q].sheetName = [t |-> "string", v |-> <<>>]

\* C15: a backoff wait happens exactly once in a request that makes a second
\* attempt and never otherwise: after the first attempt's transient failure
\* and before the second attempt starts, never after a success, a permanent
\* failure or the second attempt.
C15_BackoffOnlyBetweenAttempts ==
    \A r \in UploadIds :
        /\ BackoffsBegun(r) <= 1
        /\ \A i \in 1 .. Len(events[r]) :
              events[r][i] = "backoff" =>
                  /\ i = 2
                  /\ events[r][1] = "fetch"
                  /\ Transient(outcomes[r][1])
                  /\ Len(events[r]) >= 3 => events[r][3] = "fetch"
        /\ Len(sent[r]) = 2 =>
              /\ Len(events[r]) >= 3
              /\ events[r][2] = "backoff"
              /\ events[r][3] = "fetch"
              /\ waits[r] = 1
        /\ Len(sent[r]) < 2 => waits[r] = 0
        /\ Done(r) => BackoffsBegun(r) = Len(sent[r]) - (IF sent[r] = <<>> THEN 0 ELSE 1)

\* a request answered after two 5xx responses waited once, and a request
\* answered after a 403 did not wait
C15_Witness ==
    \E r, q \in UploadIds :
        /\ Done(r) /\ outcomes[r] = <<HttpOutcome(500), HttpOutcome(503)>>
        /\ waits[r] = 1 /\ BackoffsBegun(r) = 1
        /\ Done(q) /\ outcomes[q] = <<HttpOutcome(403)>> /\ waits[q] = 0

Blank == {" ", "\t", "\n"}

\* the override without its leading and trailing blanks
Trimmed(s) ==
    LET inked == {i \in 1 .. Len(s) : s[i] \notin Blank}
        first == CHOOSE i \in inked : \A j \in inked : i <= j
        last == CHOOSE i \in inked : \A j \in inked : i >= j
    IN  IF inked = {} THEN <<>> ELSE [i \in 1 .. last - first + 1 |-> s[first + i - 1]]

\* C17: all attempts of a request go to one destination: the override when
\* it is present and not blank after trimming, otherwise the default.
C17_OneDestination ==
    \A r \in UploadIds : \A i \in 1 .. Len(sent[r]) :
        LET u == body[r].googleScriptUrl
        IN  /\ sent[r][i].url = sent[r][1].url
            /\ (u.t = "string" /\ Trimmed(u.v) # <<>>) =>
                   sent[r][i].url = Trimmed(u.v)
            /\ (u.t = "undefined" \/ (u.t = "string" /\ Trimmed(u.v) = <<>>)) =>
                   sent[r][i].url = <<"G">>

\* a retry went to the override, and a request with a blank override went to
\* the default
C17_Witness ==
    \E r, q \in UploadIds :
        /\ Len(sent[r]) = 2 /\ body[r].googleScriptUrl.v = <<" ", "U", " ">>
        /\ sent[r][2].url = <<"U">>
        /\ Len(sent[q]) >= 1 /\ body[q].googleScriptUrl.v = <<" ", "\t">>
        /\ sent[q][1].url = <<"G">>

SomeAttemptSucceeded(r) ==
    \E i \in 1 .. Len(outcomes[r]) : Succeeded(outcomes[r][i])

\* C19: a relay response has ok:true iff its status is 200 iff some attempt
\* of the request returned 200-299 or 302; an ok:false response has status
\* 400 (no attempt was made), 502 (attempts were made, none succeeded) or 500.
C19_OkIffSuccess ==
    \A r \in UploadIds : \A i \in 1 .. Len(responses[r]) :
        LET response == responses[r][i]
        IN  /\ response.ok = TRUE <=> response.code = 200
            /\ response.code = 200 <=> SomeAttemptSucceeded(r)
            /\ response.ok = FALSE => response.code \in {400, 502, 500}
            /\ response.code = 400 => sent[r] = <<>>
            /\ response.code = 502 =>
                   sent[r] # <<>> /\ ~SomeAttemptSucceeded(r)

\* responses with each of the four statuses have been sent
C19_Witness ==
    \E r, q \in UploadIds :
        /\ Done(r) /\ Done(q)
        /\ responses[r][1].code = 200 /\ outcomes[r][Len(outcomes[r])].status = 299
        /\ \/ responses[q][1].code = 400
           \/ responses[q][1].code = 500
           \/ responses[q][1].code = 502

\* C16: if every outbound call eventually completes, every relay request
\* eventually terminates, and it sends exactly one response: a response is
\* sent only by the step that ends the handler, that step sends one, and no
\* step sends a second.
C16_TerminatesWithOneResponse ==
    /\ [][\A r \in UploadIds :
              /\ responses'[r] # responses[r] =>
                     /\ responses[r] = <<>>
                     /\ Len(responses'[r]) = 1
                     /\ ~Done(r) /\ pc'[r] = "done"
              /\ (~Done(r) /\ pc'[r] = "done") => Len(responses'[r]) = 1
              /\ Done(r) => pc'[r] = "done"]_vars
    /\ \A r \in UploadIds : (pc[r] # "idle") ~> Done(r)

\* a request has terminated after a retry and a backoff, with one response,
\* while the other request is still waiting for its outbound call
C16_Witness ==
    \E r, q \in UploadIds :
        /\ Done(r) /\ Len(sent[r]) = 2 /\ waits[r] = 1
        /\ Len(responses[r]) = 1
        /\ pc[q] = "fetch" /\ responses[q] = <<>>

\* ------------------------------------------------------------------------
\* C11, C20: the read-through fetch and the BitUnix upload
\* ------------------------------------------------------------------------

PifDone(f) == pifPc[f] = "done"

\* the outbound call of the handler failed: rejected fetch, non-success
\* HTTP status, or a parsed envelope whose success flag is false
PifCallFailed(f) ==
    \/ pifStatus[f] = 0
    \/ ~(pifStatus[f] >= 200 /\ pifStatus[f] <= 299)
    \/ /\ pifResult[f].kind = "object"
       /\ pifResult[f].success = [t |-> "boolean", v |-> FALSE]

IsFailureEnvelope(response) ==
    /\ response.code = 500
    /\ response.success = FALSE
    /\ Has(response, "error")
    /\ response.error # <<>>

\* C11: the read-through fetch issues exactly one outbound GET per request
\* and never retries; if the call fails at the transport level, or the
\* destination returns a non-success HTTP status, or the envelope's success
\* flag is false, the response is a failure envelope (success:false, an
\* error string, status 500), sent by the handler itself.
C11_OneGetFailureEnvelope ==
    \A f \in PifFiles :
        /\ Len(pifSent[f]) = (IF pifPc[f] = "idle" THEN 0 ELSE 1)
        /\ \A i \in 1 .. Len(pifSent[f]) : pifSent[f][i].method = "GET"
        /\ Len(pifResponses[f]) = (IF PifDone(f) THEN 1 ELSE 0)
        /\ (PifDone(f) /\ PifCallFailed(f)) =>
               IsFailureEnvelope(pifResponses[f][1])

BitunixDone == buPc = "done"

\* C20: /upload-bitunix answers a missing or non-array data with 400 and
\* makes no outbound call; otherwise it makes exactly one outbound POST,
\* never a second, answers success:true whenever the upstream body parses as
\* JSON, whatever the upstream status, and answers 500 with success:false
\* only when the call or the parse throws.
C20_BitunixUpload ==
    LET missing == buBody.data.t \in {"undefined", "null"}
        anArray == buBody.data.t = "array"
        started == buPc # "idle"
        threw == \/ buStatus = 0
                 \/ buResult.kind = "invalid"
    IN  /\ Len(buResponses) = (IF BitunixDone THEN 1 ELSE 0)
        /\ (started /\ (missing \/ ~anArray)) =>
               /\ BitunixDone
               /\ buResponses[1].code = 400 /\ buResponses[1].success = FALSE
               /\ buSent = <<>>
        /\ (started /\ anArray) =>
               /\ Len(buSent) = 1
               /\ buSent[1].method = "POST"
               /\ buSent[1].body[2] = <<"data", buBody.data>>
        /\ (BitunixDone /\ anArray /\ ~threw) =>
               /\ buResponses[1].code = 200 /\ buResponses[1].success = TRUE
               /\ buResponses[1].result = buResult
        /\ (BitunixDone /\ buResponses[1].code = 500) =>
               /\ buResponses[1].success = FALSE
               /\ anArray /\ threw
        /\ (BitunixDone /\ anArray /\ threw) => buResponses[1].code = 500

\* an upload whose upstream answered 500 with a JSON body was reported as a
\* success
C20_Witness ==
    /\ BitunixDone
    /\ buBody.data.t = "array" /\ Len(buBody.data.v) = 2
    /\ buStatus = 500
    /\ buResult.kind = "object"
    /\ buResponses[1].code = 200 /\ buResponses[1].success = TRUE
    /\ Len(buSent) = 1

\* ------------------------------------------------------------------------
\* C13, C18: the cache among suspended handlers
\* ------------------------------------------------------------------------

RelaySuspended(r) == pc[r] \in {"fetch", "backoff", "textOk", "textFail"}

PifSuspended(f) == pifPc[f] \in {"fetch", "json"}

\* the snapshot holds exactly the arguments of the last stored write, with
\* an omitted fullData as the empty sequence and an omitted timestamp as a
\* time of the clock
HoldsOneWrite ==
    /\ tradingViewSymbols.symbols = lastStored.symbols
    /\ tradingViewSymbols.fullData =
           (IF lastStored.fullData.t = "undefined"
            THEN [t |-> "array", v |-> <<>>] ELSE lastStored.fullData)
    /\ IF lastStored.timestamp.t = "undefined"
       THEN \E now \in 0 .. clock :
               tradingViewSymbols.timestamp = [t |-> "string", v |-> ToISOString(now)]
       ELSE tradingViewSymbols.timestamp = lastStored.timestamp

\* C13: under any interleaving of symbol writes, symbol reads and suspended
\* relay or fetch handlers, the held snapshot is the complete argument
\* triple of the most recent stored write, or the initial empty snapshot;
\* nothing is mixed, merged or appended, and a read returns the symbols and
\* the timestamp of that same write.
C13_SnapshotIsOneWrite ==
    /\ IF lastStored = NoSymbolBody
       THEN tradingViewSymbols =
                [symbols |-> [t |-> "array", v |-> <<>>],
                 fullData |-> [t |-> "array", v |-> <<>>],
                 timestamp |-> [t |-> "null", v |-> <<>>]]
       ELSE HoldsOneWrite
    /\ (trail # <<>> /\ Latest.op = "read" /\ Latest.response.success) =>
           /\ Latest.response.symbols = lastStored.symbols
           /\ Latest.response.timestamp = tradingViewSymbols.timestamp
           /\ HoldsOneWrite

\* with a relay handler and a fetch handler suspended, a write that omits
\* fullData has replaced one that supplied it, and a read has followed
C13_Witness ==
    /\ Len(trail) = 3
    /\ RelaySuspended(1) /\ PifSuspended("server.js")
    /\ trail[1].op = "write" /\ trail[1].response.code = 200
    /\ trail[1].body.fullData.t = "array"
    /\ trail[2].op = "write" /\ trail[2].response.code = 200
    /\ trail[2].body.fullData.t = "undefined"
    /\ trail[3].op = "read" /\ trail[3].response.success
    /\ trail[3].response.symbols = trail[2].body.symbols

\* the response of a finished relay request as a function of the request
\* and of how its outbound calls and body reads ended
RelayOutcome(b, outs, txts) ==
    LET last == outs[Len(outs)]
    IN  IF b.googleScriptUrl.t = "object" THEN
            InternalErrorResponse(TypeErrorMessage, 0)
        ELSE IF b.values.t # "array" THEN BadValuesResponse
        ELSE IF last.kind = "error" THEN
            ExhaustedResponse(last.msg, Len(outs) - 1)
        ELSE IF Succeeded(last) THEN
            SuccessResponse(last.status, TextOf(txts[1]), Len(outs) - 1)
        ELSE ForwardFailedResponse(last.status, TextOf(txts[1]))

\* C18: relay and read-through fetch requests never modify the snapshot: it
\* changes only in the step of a stored symbol write, in which no relay or
\* fetch handler moves, and the response of a relay request is determined by
\* the request and its outbound calls alone, whatever the snapshot.
C18_HandlersLeaveSnapshot ==
    [][/\ (relayVars' # relayVars \/ fetchVars' # fetchVars) =>
              tradingViewSymbols' = tradingViewSymbols
       /\ tradingViewSymbols' # tradingViewSymbols =>
              /\ trail' # trail
              /\ trail'[Len(trail')].op = "write"
              /\ trail'[Len(trail')].response.code = 200
              /\ trail'[Len(trail')].after = tradingViewSymbols'
       /\ \A r \in UploadIds :
              (pc'[r] = "done" /\ responses'[r] # <<>>) =>
                  responses'[r][1] = RelayOutcome(body'[r], outcomes'[r], texts'[r])]_vars

\* a relay request with a retry and a fetch request have finished, and the
\* snapshot was replaced by a stored write, the latest cache request
C18_Witness ==
    /\ Done(1) /\ responses[1][1].code = 200 /\ Len(sent[1]) = 2
    /\ pifPc["server.js"] = "done" /\ pifResponses["server.js"][1].code = 200
    /\ tradingViewSymbols # EmptySnapshot
    /\ Len(trail) >= 2
    /\ trail[Len(trail)].op = "write" /\ trail[Len(trail)].response.code = 200

====
